---- MODULE Spec2Model ----
(***************************************************************************)
(* Model of nano_graphrag/token_utils.py: the TokenCounter class (five     *)
(* named token counters filled from an external tiktoken encoder) and the  *)
(* standalone estimate_tokens heuristic.                                   *)
(*                                                                         *)
(* Python values are modelled as follows.  A text is a record with a kind  *)
(* ("None" or "str") and its characters; a dict is a function from its     *)
(* keys to its values, living in a heap of objects so that two references  *)
(* to one dict can be told from two dicts with equal contents; the result  *)
(* of a call is a record saying whether it returned or raised, and what.   *)
(***************************************************************************)
EXTENDS Integers, Sequences, FiniteSets, TLC

VARIABLES
    model_name,   \* self.model_name of the instance under construction / constructed
    encoder,      \* self.encoder: the encoding bound to the instance, or Unset
    stats,        \* self.stats: a reference to the counter dict, or NoRef
    heap,         \* the dict objects that exist: reference -> dict
    counter,      \* TRUE when the caller holds a constructed TokenCounter
    snap,         \* the caller's reference to a mapping get_stats returned, or NoRef
    lastCall,     \* the call made by the last step: its operation and argument
    outcome,      \* what that call did: returned a value or raised an error
    lastArg,      \* history: per category, the argument of the last successful update
    est_text,     \* the argument estimate_tokens is called with
    est_ret       \* what estimate_tokens did with it

vars == <<model_name, encoder, stats, heap, counter, snap, lastCall, outcome,
          lastArg, est_text, est_ret>>

counterVars == <<model_name, encoder, stats, heap, counter, snap, lastCall, outcome>>
estVars == <<est_text, est_ret>>

----------------------------------------------------------------------------
(* Bounds of the model *)

MaxTextLen == 1     \* longest text handed to the counter
MaxChunks == 2      \* longest list handed to the batch operations
MaxEstLen == 3      \* longest text handed to estimate_tokens

----------------------------------------------------------------------------
(* Python values *)

PyNone == [kind |-> "None", chars |-> <<>>]
Str(s) == [kind |-> "str", chars |-> s]

\* Python truthiness of an Optional[str]: None and "" are falsy.
Falsy(text) == text.kind = "None" \/ Len(text.chars) = 0

Ok(v) == [status |-> "ok", ret |-> v]
Raise(e) == [status |-> "raised", ret |-> e]

SeqsUpTo(S, n) == UNION {[1..k -> S] : k \in 0..n}

RECURSIVE sum(_)
sum(xs) == IF xs = <<>> THEN 0 ELSE Head(xs) + sum(Tail(xs))

\* d[k] = v on a dict: adds the key when it is absent.
SetItem(d, k, v) == [x \in DOMAIN d \cup {k} |-> IF x = k THEN v ELSE d[x]]
\* del d[k]
DelItem(d, k) == [x \in DOMAIN d \ {k} |-> d[x]]

Unset == "unset"
NoRef == "no_ref"
StatsRef == "stats_dict"     \* the dict built by __init__
CopyRef == "copy_dict"       \* a dict built by dict.copy()

Keys == {"query_tokens", "system_prompt_tokens", "retrieved_data_tokens",
         "total_prompt_tokens", "completion_tokens"}

----------------------------------------------------------------------------
(* The external encoder (tiktoken), as far as the counter depends on it *)

\* tiktoken.encoding_for_model: the encoding of a known model name; for any
\* other name it raises KeyError (the configuration error of the counter).
encoding_for_model(name) ==
    IF name = "gpt-4o" THEN Ok("o200k_base")
    ELSE IF name = "gpt-4" THEN Ok("cl100k_base")
    ELSE Raise([type |-> "KeyError", text |-> <<name>>])

\* The tokens of one character under an encoding: the encodings differ.
char_tokens(enc, ch) ==
    IF enc = "o200k_base" THEN <<ch>> ELSE <<ch, "+">>

RECURSIVE encode_chars(_, _)
encode_chars(enc, chars) ==
    IF chars = <<>> THEN <<>>
    ELSE char_tokens(enc, Head(chars)) \o encode_chars(enc, Tail(chars))

\* Encoding.encode: the token list of a text; it raises ValueError (the
\* encoding error of the counter) on a text that holds a disallowed special
\* token, here the character "S".
encode(enc, chars) ==
    IF \E i \in 1..Len(chars) : chars[i] = "S"
    THEN Raise([type |-> "ValueError", text |-> chars])
    ELSE Ok(encode_chars(enc, chars))

----------------------------------------------------------------------------
(* TokenCounter: the pure operations *)

\* A count that falls back to 0 when the encoder raises.
count_tokens_fallback(text) ==
    IF Falsy(text) THEN Ok(0)
    ELSE LET e == encode(encoder, text.chars)
         IN IF e.status = "raised" THEN Ok(0) ELSE Ok(Len(e.ret))

count_tokens(text) ==
    IF Falsy(text) THEN Ok(0)
    ELSE LET e == encode(encoder, text.chars)
         IN IF e.status = "raised" THEN e ELSE Ok(Len(e.ret))

\* The list comprehension counts the elements in order and stops at the first
\* one that raises; the counts made so far are lost with it.
RECURSIVE count_tokens_batch(_)
count_tokens_batch(texts) ==
    IF texts = <<>> THEN Ok(<<>>)
    ELSE LET h == count_tokens(Head(texts))
         IN IF h.status = "raised" THEN h
            ELSE LET r == count_tokens_batch(Tail(texts))
                 IN IF r.status = "raised" THEN r ELSE Ok(<<h.ret>> \o r.ret)

----------------------------------------------------------------------------
(* TokenCounter: construction and the operations on its state *)

ZeroStats == [k \in Keys |-> 0]

\* What the caller gets from a call that returns nothing.
Returned == Ok(PyNone)

\* A constructor that builds the dict first and swallows the lookup error.
TokenCounter_lenient(name) ==
    /\ ~counter
    /\ LET e == encoding_for_model(name)
       IN /\ model_name' = name
          /\ encoder' = IF e.status = "raised" THEN Unset ELSE e.ret
          /\ stats' = StatsRef
          /\ heap' = [r \in {StatsRef} |-> ZeroStats]
          /\ counter' = TRUE
          /\ outcome' = Returned
    /\ lastCall' = [op |-> "TokenCounter", arg |-> name]
    /\ UNCHANGED snap

\* TokenCounter(name): model_name is set, then the encoder is resolved, then
\* the counter dict is built.  When encoding_for_model raises, __init__ stops
\* there and the constructor call hands no instance to the caller.
TokenCounter(name) ==
    /\ ~counter
    /\ LET e == encoding_for_model(name)
       IN /\ model_name' = name
          /\ IF e.status = "raised"
             THEN /\ encoder' = Unset
                  /\ stats' = NoRef
                  /\ heap' = [r \in {} |-> ZeroStats]
                  /\ counter' = FALSE
                  /\ outcome' = e
             ELSE /\ encoder' = e.ret
                  /\ stats' = StatsRef
                  /\ heap' = [r \in {StatsRef} |-> ZeroStats]
                  /\ counter' = TRUE
                  /\ outcome' = Returned
    /\ lastCall' = [op |-> "TokenCounter", arg |-> name]
    /\ UNCHANGED snap

\* A caller's direct call of count_tokens: no state of the counter changes.
call_count_tokens(text) ==
    /\ counter
    /\ outcome' = count_tokens(text)
    /\ lastCall' = [op |-> "count_tokens", arg |-> text]
    /\ UNCHANGED <<model_name, encoder, stats, heap, counter, snap>>

call_count_tokens_batch(texts) ==
    /\ counter
    /\ outcome' = count_tokens_batch(texts)
    /\ lastCall' = [op |-> "count_tokens_batch", arg |-> texts]
    /\ UNCHANGED <<model_name, encoder, stats, heap, counter, snap>>

\* An update that adds to the counter instead of replacing it.
update_query_tokens_accumulate(query) ==
    /\ counter
    /\ LET c == count_tokens(query)
       IN IF c.status = "raised"
          THEN heap' = heap /\ outcome' = c
          ELSE /\ heap' = [heap EXCEPT ![stats] =
                              SetItem(@, "query_tokens", @["query_tokens"] + c.ret)]
               /\ outcome' = Returned
    /\ lastCall' = [op |-> "update_query_tokens", arg |-> query]
    /\ UNCHANGED <<model_name, encoder, stats, counter, snap>>

\* self.stats[key] = <count>: the right-hand side is evaluated first, so a
\* count that raises leaves the dict as it was.
update_query_tokens(query) ==
    /\ counter
    /\ LET c == count_tokens(query)
       IN IF c.status = "raised"
          THEN heap' = heap /\ outcome' = c
          ELSE /\ heap' = [heap EXCEPT ![stats] = SetItem(@, "query_tokens", c.ret)]
               /\ outcome' = Returned
    /\ lastCall' = [op |-> "update_query_tokens", arg |-> query]
    /\ UNCHANGED <<model_name, encoder, stats, counter, snap>>

update_system_prompt_tokens(system_prompt) ==
    /\ counter
    /\ LET c == count_tokens(system_prompt)
       IN IF c.status = "raised"
          THEN heap' = heap /\ outcome' = c
          ELSE /\ heap' = [heap EXCEPT ![stats] = SetItem(@, "system_prompt_tokens", c.ret)]
               /\ outcome' = Returned
    /\ lastCall' = [op |-> "update_system_prompt_tokens", arg |-> system_prompt]
    /\ UNCHANGED <<model_name, encoder, stats, counter, snap>>

\* The counts of the chunks before the first one the encoder rejects.
RECURSIVE counted_prefix(_)
counted_prefix(texts) ==
    IF texts = <<>> \/ count_tokens(Head(texts)).status = "raised" THEN <<>>
    ELSE <<count_tokens(Head(texts)).ret>> \o counted_prefix(Tail(texts))

\* An update that adds chunk by chunk into the counter, so that a chunk the
\* encoder rejects leaves the counts of the chunks before it behind.
update_retrieved_data_tokens_partial(chunks) ==
    /\ counter
    /\ LET c == count_tokens_batch(chunks)
       IN /\ heap' = [heap EXCEPT ![stats] =
                         SetItem(@, "retrieved_data_tokens", sum(counted_prefix(chunks)))]
          /\ outcome' = IF c.status = "raised" THEN c ELSE Returned
    /\ lastCall' = [op |-> "update_retrieved_data_tokens", arg |-> chunks]
    /\ UNCHANGED <<model_name, encoder, stats, counter, snap>>

\* An update that adds the chunks to the running total of earlier calls.
update_retrieved_data_tokens_accumulate(chunks) ==
    /\ counter
    /\ LET c == count_tokens_batch(chunks)
       IN IF c.status = "raised"
          THEN heap' = heap /\ outcome' = c
          ELSE /\ heap' = [heap EXCEPT ![stats] =
                              SetItem(@, "retrieved_data_tokens",
                                      @["retrieved_data_tokens"] + sum(c.ret))]
               /\ outcome' = Returned
    /\ lastCall' = [op |-> "update_retrieved_data_tokens", arg |-> chunks]
    /\ UNCHANGED <<model_name, encoder, stats, counter, snap>>

update_retrieved_data_tokens(chunks) ==
    /\ counter
    /\ LET c == count_tokens_batch(chunks)
       IN IF c.status = "raised"
          THEN heap' = heap /\ outcome' = c
          ELSE /\ heap' = [heap EXCEPT ![stats] = SetItem(@, "retrieved_data_tokens", sum(c.ret))]
               /\ outcome' = Returned
    /\ lastCall' = [op |-> "update_retrieved_data_tokens", arg |-> chunks]
    /\ UNCHANGED <<model_name, encoder, stats, counter, snap>>

\* An update that adds the prompt to the parts counted before.
update_total_prompt_tokens_derived(full_prompt) ==
    /\ counter
    /\ LET c == count_tokens(full_prompt)
       IN IF c.status = "raised"
          THEN heap' = heap /\ outcome' = c
          ELSE /\ heap' = [heap EXCEPT ![stats] =
                              SetItem(@, "total_prompt_tokens",
                                      @["system_prompt_tokens"] + @["retrieved_data_tokens"]
                                      + @["query_tokens"] + c.ret)]
               /\ outcome' = Returned
    /\ lastCall' = [op |-> "update_total_prompt_tokens", arg |-> full_prompt]
    /\ UNCHANGED <<model_name, encoder, stats, counter, snap>>

update_total_prompt_tokens(full_prompt) ==
    /\ counter
    /\ LET c == count_tokens(full_prompt)
       IN IF c.status = "raised"
          THEN heap' = heap /\ outcome' = c
          ELSE /\ heap' = [heap EXCEPT ![stats] = SetItem(@, "total_prompt_tokens", c.ret)]
               /\ outcome' = Returned
    /\ lastCall' = [op |-> "update_total_prompt_tokens", arg |-> full_prompt]
    /\ UNCHANGED <<model_name, encoder, stats, counter, snap>>

update_completion_tokens(completion) ==
    /\ counter
    /\ LET c == count_tokens(completion)
       IN IF c.status = "raised"
          THEN heap' = heap /\ outcome' = c
          ELSE /\ heap' = [heap EXCEPT ![stats] = SetItem(@, "completion_tokens", c.ret)]
               /\ outcome' = Returned
    /\ lastCall' = [op |-> "update_completion_tokens", arg |-> completion]
    /\ UNCHANGED <<model_name, encoder, stats, counter, snap>>

\* A get_stats that returns self.stats itself.
get_stats_alias == stats

\* The object get_stats returns: a new dict, filled from self.stats.
get_stats_ret == CopyRef

\* get_stats(): keep says whether the caller keeps the returned mapping (in
\* snap, dropping the one held before) or only looks at it.
get_stats(keep) ==
    /\ counter
    /\ LET r == get_stats_ret
           d == heap[stats]
       IN /\ outcome' = Ok([ref |-> r, val |-> d])
          /\ IF keep
             THEN /\ heap' = [x \in DOMAIN heap \cup {r} |-> IF x = r THEN d ELSE heap[x]]
                  /\ snap' = r
             ELSE UNCHANGED <<heap, snap>>
    /\ lastCall' = [op |-> "get_stats", arg |-> keep]
    /\ UNCHANGED <<model_name, encoder, stats, counter>>

\* A reset that empties the dict (self.stats.clear()).
reset_stats_clear ==
    /\ counter
    /\ heap' = [heap EXCEPT ![stats] = [k \in {} |-> 0]]
    /\ outcome' = Returned
    /\ lastCall' = [op |-> "reset_stats", arg |-> PyNone]
    /\ UNCHANGED <<model_name, encoder, stats, counter, snap>>

\* A reset that forgets the completion counter.
reset_stats_prompt_only ==
    /\ counter
    /\ heap' = [heap EXCEPT ![stats] =
                   [k \in DOMAIN @ |-> IF k = "completion_tokens" THEN @[k] ELSE 0]]
    /\ outcome' = Returned
    /\ lastCall' = [op |-> "reset_stats", arg |-> PyNone]
    /\ UNCHANGED <<model_name, encoder, stats, counter, snap>>

\* for key in self.stats: self.stats[key] = 0
reset_stats ==
    /\ counter
    /\ heap' = [heap EXCEPT ![stats] = [k \in DOMAIN @ |-> 0]]
    /\ outcome' = Returned
    /\ lastCall' = [op |-> "reset_stats", arg |-> PyNone]
    /\ UNCHANGED <<model_name, encoder, stats, counter, snap>>

\* The caller changes the mapping it holds: d[key] = value, del d[key].
caller_setitem(key, value) ==
    /\ snap # NoRef
    /\ heap' = [heap EXCEPT ![snap] = SetItem(@, key, value)]
    /\ outcome' = Returned
    /\ lastCall' = [op |-> "caller_setitem", arg |-> <<key, value>>]
    /\ UNCHANGED <<model_name, encoder, stats, counter, snap>>

caller_delitem(key) ==
    /\ snap # NoRef
    /\ key \in DOMAIN heap[snap]
    /\ heap' = [heap EXCEPT ![snap] = DelItem(@, key)]
    /\ outcome' = Returned
    /\ lastCall' = [op |-> "caller_delitem", arg |-> key]
    /\ UNCHANGED <<model_name, encoder, stats, counter, snap>>

----------------------------------------------------------------------------
(* The inputs and the specification of the counter *)

ModelNames == {"gpt-4o", "gpt-4", "gpt-unknown"}
Alphabet == {"a", "S"}
Texts == {PyNone} \cup {Str(s) : s \in SeqsUpTo(Alphabet, MaxTextLen)}
\* The chunks of a list: an empty one, a one-character one, one the encoder rejects.
ChunkTexts == {Str(<<>>), Str(<<"a">>), Str(<<"S">>)}
ChunkLists == SeqsUpTo(ChunkTexts, MaxChunks)

NoCall == [op |-> "none", arg |-> PyNone]
NoArg == [set |-> FALSE, arg |-> PyNone]

UpdateOps == {"update_query_tokens", "update_system_prompt_tokens",
              "update_retrieved_data_tokens", "update_total_prompt_tokens",
              "update_completion_tokens"}

KeyOf(op) ==
    CASE op = "update_query_tokens" -> "query_tokens"
      [] op = "update_system_prompt_tokens" -> "system_prompt_tokens"
      [] op = "update_retrieved_data_tokens" -> "retrieved_data_tokens"
      [] op = "update_total_prompt_tokens" -> "total_prompt_tokens"
      [] op = "update_completion_tokens" -> "completion_tokens"

Init ==
    /\ model_name = Unset
    /\ encoder = Unset
    /\ stats = NoRef
    /\ heap = [r \in {} |-> ZeroStats]
    /\ counter = FALSE
    /\ snap = NoRef
    /\ lastCall = NoCall
    /\ outcome = Returned
    /\ lastArg = [k \in Keys |-> NoArg]
    /\ est_text = PyNone
    /\ est_ret = Returned

\* The history of successful updates, read off the call a step made.
Tracked ==
    /\ lastArg' =
         IF lastCall'.op \in {"TokenCounter", "reset_stats"}
         THEN [k \in Keys |-> NoArg]
         ELSE IF lastCall'.op \in UpdateOps /\ outcome'.status = "ok"
         THEN [lastArg EXCEPT ![KeyOf(lastCall'.op)] = [set |-> TRUE, arg |-> lastCall'.arg]]
         ELSE lastArg
    /\ UNCHANGED estVars

Untracked == UNCHANGED <<lastArg, est_text, est_ret>>

Next ==
    \/ \E name \in ModelNames : TokenCounter(name) /\ Untracked
    \/ \E text \in Texts : call_count_tokens(text) /\ Untracked
    \/ \E texts \in ChunkLists : call_count_tokens_batch(texts) /\ Untracked
    \/ \E query \in Texts : update_query_tokens(query) /\ Untracked
    \/ \E system_prompt \in Texts : update_system_prompt_tokens(system_prompt) /\ Untracked
    \/ \E chunks \in ChunkLists : update_retrieved_data_tokens(chunks) /\ Untracked
    \/ \E full_prompt \in Texts : update_total_prompt_tokens(full_prompt) /\ Untracked
    \/ \E completion \in Texts : update_completion_tokens(completion) /\ Untracked
    \/ get_stats(FALSE) /\ Untracked
    \/ reset_stats /\ Untracked

Spec == Init /\ [][Next]_vars

\* The update calls with the history of successful updates kept; the texts
\* are None, texts of every length the encoder accepts and one it rejects.
HistoryTexts == {PyNone, Str(<<"S">>)} \cup {Str(s) : s \in SeqsUpTo({"a"}, MaxTextLen)}
HistoryLists == {<<>>, <<Str(<<"a">>)>>, <<Str(<<"a">>), Str(<<"a">>)>>,
                 <<Str(<<"a">>), Str(<<"S">>)>>}

NextHistory ==
    \/ \E name \in ModelNames : TokenCounter(name) /\ Tracked
    \/ \E query \in HistoryTexts : update_query_tokens(query) /\ Tracked
    \/ \E system_prompt \in HistoryTexts : update_system_prompt_tokens(system_prompt) /\ Tracked
    \/ \E chunks \in HistoryLists : update_retrieved_data_tokens(chunks) /\ Tracked
    \/ \E full_prompt \in HistoryTexts : update_total_prompt_tokens(full_prompt) /\ Tracked
    \/ \E completion \in HistoryTexts : update_completion_tokens(completion) /\ Tracked
    \/ get_stats(FALSE) /\ Tracked
    \/ reset_stats /\ Tracked

SpecHistory == Init /\ [][NextHistory]_vars

\* A caller that keeps the mapping get_stats returned and changes it: it
\* overwrites a counter, adds a key of its own, removes a key.
CallerSetKeys == {"query_tokens", "extra"}
CallerDelKeys == {"completion_tokens", "extra"}
CallerValues == {-1}
SnapshotTexts == {Str(<<"a">>), Str(<<"S">>)}
SnapshotLists == {<<>>, <<Str(<<"a">>), Str(<<"a">>)>>, <<Str(<<"a">>), Str(<<"S">>)>>}

NextSnapshot ==
    \/ \E name \in ModelNames : TokenCounter(name) /\ Untracked
    \/ \E query \in SnapshotTexts : update_query_tokens(query) /\ Untracked
    \/ \E system_prompt \in SnapshotTexts : update_system_prompt_tokens(system_prompt) /\ Untracked
    \/ \E chunks \in SnapshotLists : update_retrieved_data_tokens(chunks) /\ Untracked
    \/ \E full_prompt \in SnapshotTexts : update_total_prompt_tokens(full_prompt) /\ Untracked
    \/ \E completion \in SnapshotTexts : update_completion_tokens(completion) /\ Untracked
    \/ \E keep \in BOOLEAN : get_stats(keep) /\ Untracked
    \/ reset_stats /\ Untracked
    \/ \E key \in CallerSetKeys, value \in CallerValues : caller_setitem(key, value) /\ Untracked
    \/ \E key \in CallerDelKeys : caller_delitem(key) /\ Untracked

SpecSnapshot == Init /\ [][NextSnapshot]_vars

----------------------------------------------------------------------------
(* estimate_tokens *)

CJK_LO == 19968     \* U+4E00
CJK_HI == 40959     \* U+9FFF

\* A class that stops one code point short of U+9FFF.
MatchChinese_short(ch) == CJK_LO <= ch /\ ch < CJK_HI

\* The character class [\u4e00-\u9fff]
MatchChinese(ch) == CJK_LO <= ch /\ ch <= CJK_HI
\* The character class [^\u4e00-\u9fff]; a negated class matches newline too.
MatchNonChinese(ch) == ~(CJK_LO <= ch /\ ch <= CJK_HI)

\* re.findall with a one-character class: the matching characters, in order.
findall_chinese(chars) == SelectSeq(chars, MatchChinese)
findall_non_chinese(chars) == SelectSeq(chars, MatchNonChinese)

\* The weights 1.5 and 0.25, in quarters of a token: the float sum is exact,
\* and int() drops the fraction of a sum that is never negative.
ChineseQuarters == 6
NonChineseQuarters == 1

estimate_tokens(text) ==
    IF Falsy(text) THEN Ok(0)
    ELSE LET chinese_chars == Len(findall_chinese(text.chars))
             non_chinese_chars == Len(findall_non_chinese(text.chars))
             quarters == chinese_chars * ChineseQuarters
                         + non_chinese_chars * NonChineseQuarters
         IN Ok(quarters \div 4)

call_estimate_tokens ==
    /\ est_ret = [status |-> "pending", ret |-> 0]
    /\ est_ret' = estimate_tokens(est_text)
    /\ UNCHANGED <<est_text, lastArg>>
    /\ UNCHANGED counterVars

\* Newline, space, a letter, and the code points at and next to both ends of
\* the CJK range.
EstAlphabet == {10, 32, 97, CJK_LO - 1, CJK_LO, CJK_HI, CJK_HI + 1}
EstTexts == {PyNone} \cup {Str(s) : s \in SeqsUpTo(EstAlphabet, MaxEstLen)}

InitEstimate ==
    /\ model_name = Unset
    /\ encoder = Unset
    /\ stats = NoRef
    /\ heap = [r \in {} |-> ZeroStats]
    /\ counter = FALSE
    /\ snap = NoRef
    /\ lastCall = NoCall
    /\ outcome = Returned
    /\ lastArg = [k \in Keys |-> NoArg]
    /\ est_text \in EstTexts
    /\ est_ret = [status |-> "pending", ret |-> 0]

NextEstimate == call_estimate_tokens

SpecEstimate == InitEstimate /\ [][NextEstimate]_vars

----------------------------------------------------------------------------
(* Properties *)

\* The encoder of the counter raises on this text.
EncoderRejects(text) ==
    ~Falsy(text) /\ encode(encoder, text.chars).status = "raised"

\* The first element of a list the encoder raises on.
FirstRejected(chunks) ==
    LET bad == {i \in 1..Len(chunks) : EncoderRejects(chunks[i])}
    IN chunks[CHOOSE i \in bad : \A j \in bad : i <= j]

\* The sum of count(c) over the elements of a list.
SumOfCounts(chunks) == sum([i \in 1..Len(chunks) |-> count_tokens(chunks[i]).ret])

\* What an update call stores: count(text), or the sum over the list.
CountOfArg(op, arg) ==
    IF op = "update_retrieved_data_tokens" THEN SumOfCounts(arg)
    ELSE count_tokens(arg).ret

\* C1: whenever a counter exists, its mapping has exactly the five keys and
\* every value is a non-negative integer; right after construction all five
\* values are 0.
C1_FiveNonNegativeCounters ==
    counter =>
        /\ DOMAIN heap[stats] = Keys
        /\ \A k \in Keys : heap[stats][k] \in Nat
        /\ lastCall.op = "TokenCounter" => \A k \in Keys : heap[stats][k] = 0

\* C1 witness: every counter has been raised above 0 and the last update failed.
C1_Witness ==
    /\ counter
    /\ lastCall.op \in UpdateOps
    /\ outcome.status = "raised"
    /\ \A k \in Keys : heap[stats][k] > 0

\* C2: a successful update call sets its own counter to the count of its
\* argument and leaves the other four counters and the bound encoder as they
\* were; update_total_prompt_tokens takes nothing from the other counters.
C2_UpdateChangesOnlyItsCounter ==
    [][(lastCall'.op \in UpdateOps /\ outcome'.status = "ok") =>
          /\ heap'[stats'] = [heap[stats] EXCEPT ![KeyOf(lastCall'.op)] =
                                 CountOfArg(lastCall'.op, lastCall'.arg)]
          /\ encoder' = encoder
          /\ model_name' = model_name
          /\ stats' = stats]_vars

\* C2 witness: the total prompt was just set to 0 while the other four counters
\* are all above 0.
C2_Witness ==
    /\ counter
    /\ lastCall.op = "update_total_prompt_tokens"
    /\ outcome.status = "ok"
    /\ heap[stats]["total_prompt_tokens"] = 0
    /\ \A k \in Keys \ {"total_prompt_tokens"} : heap[stats][k] > 0

\* C3: after update_retrieved_data_tokens on a list the encoder accepts, the
\* retrieved counter is the sum of the counts of that list, 0 for the empty
\* list, whatever it held before.
C3_RetrievedIsSumOfThisCall ==
    (/\ lastCall.op = "update_retrieved_data_tokens"
     /\ \A i \in 1..Len(lastCall.arg) : ~EncoderRejects(lastCall.arg[i])) =>
        /\ outcome.status = "ok"
        /\ heap[stats]["retrieved_data_tokens"] = SumOfCounts(lastCall.arg)
        /\ lastCall.arg = <<>> => heap[stats]["retrieved_data_tokens"] = 0

\* C3 witness: a list of two chunks with tokens was just counted.
C3_Witness ==
    /\ lastCall.op = "update_retrieved_data_tokens"
    /\ outcome.status = "ok"
    /\ Len(lastCall.arg) = 2
    /\ \A i \in 1..2 : count_tokens(lastCall.arg[i]).ret > 0
    /\ heap[stats]["retrieved_data_tokens"] > 1

\* C4: reset_stats returns without raising, leaves the five counters at 0 with
\* the five keys present, and leaves the bound encoder alone, so that the
\* counter is as TokenCounter(model_name) built it.
C4_ResetZeroesAll ==
    [][lastCall'.op = "reset_stats" =>
          /\ outcome'.status = "ok"
          /\ counter'
          /\ heap'[stats'] = ZeroStats
          /\ stats' = stats
          /\ encoder' = encoder
          /\ model_name' = model_name
          /\ encoder' = encoding_for_model(model_name').ret]_vars

\* C4 witness: a counter bound to the second encoding has just been reset.
C4_Witness ==
    /\ counter
    /\ lastCall.op = "reset_stats"
    /\ encoder = "cl100k_base"
    /\ heap[stats] = ZeroStats

\* C5: get_stats changes no counter and returns the counters' values; a change
\* the caller makes to a returned mapping changes no counter; an update or a
\* reset changes no mapping returned earlier.
C5_SnapshotIndependent ==
    [][/\ lastCall'.op = "get_stats" =>
             /\ heap'[stats'] = heap[stats]
             /\ outcome'.ret.val = heap[stats]
             /\ lastCall'.arg => heap'[snap'] = heap[stats]
       /\ lastCall'.op \in {"caller_setitem", "caller_delitem"} =>
             (counter => heap'[stats'] = heap[stats])
       /\ (lastCall'.op \in UpdateOps \cup {"reset_stats"} /\ snap # NoRef) =>
             /\ snap' = snap
             /\ heap'[snap'] = heap[snap]]_vars

\* C5 witness: the caller changed a value of the mapping it holds, added a key
\* and removed one, and the counter has been updated since.
C5_Witness ==
    /\ counter
    /\ snap # NoRef
    /\ lastCall.op \in UpdateOps
    /\ outcome.status = "ok"
    /\ "extra" \in DOMAIN heap[snap]
    /\ "completion_tokens" \notin DOMAIN heap[snap]
    /\ heap[snap]["query_tokens"] < 0
    /\ heap[stats]["query_tokens"] > 0

\* C6: each counter is the count of the argument of the last successful update
\* of its category since construction or the last reset, and 0 when there was
\* none: updates overwrite, they never add up.
C6_LastWriteWins ==
    counter =>
        \A k \in Keys :
            heap[stats][k] =
                IF ~lastArg[k].set THEN 0
                ELSE IF k = "retrieved_data_tokens" THEN SumOfCounts(lastArg[k].arg)
                ELSE count_tokens(lastArg[k].arg).ret

\* C6 witness: a query update has just failed after an earlier one succeeded.
C6_Witness ==
    /\ counter
    /\ lastCall.op = "update_query_tokens"
    /\ outcome.status = "raised"
    /\ lastArg["query_tokens"].set
    /\ heap[stats]["query_tokens"] > 0
    /\ lastArg["retrieved_data_tokens"].set

\* C7: when the encoder raises on the text of a count or an update, the call
\* raises that error; a batch count or a list update raises the error of the
\* first element the encoder raises on, and returns no list of counts.
C7_EncoderFailurePropagates ==
    /\ (/\ lastCall.op \in {"count_tokens", "update_query_tokens",
                            "update_system_prompt_tokens", "update_total_prompt_tokens",
                            "update_completion_tokens"}
        /\ EncoderRejects(lastCall.arg)) =>
           /\ outcome.status = "raised"
           /\ outcome.ret = encode(encoder, lastCall.arg.chars).ret
    /\ (/\ lastCall.op \in {"count_tokens_batch", "update_retrieved_data_tokens"}
        /\ \E i \in 1..Len(lastCall.arg) : EncoderRejects(lastCall.arg[i])) =>
           /\ outcome.status = "raised"
           /\ outcome.ret = encode(encoder, FirstRejected(lastCall.arg).chars).ret

\* C7 witness: a list update failed on its second chunk after the first one
\* was counted.
C7_Witness ==
    /\ lastCall.op = "update_retrieved_data_tokens"
    /\ Len(lastCall.arg) = 2
    /\ count_tokens(lastCall.arg[1]).status = "ok"
    /\ EncoderRejects(lastCall.arg[2])
    /\ outcome.status = "raised"

\* C8: construction with a model name the lookup does not know raises the
\* lookup's error before any counter dict exists and hands the caller no
\* instance; a constructed counter always has its encoder bound; nothing is
\* ever called on an instance that was not constructed.
C8_NoPartialInstance ==
    /\ (/\ lastCall.op = "TokenCounter"
        /\ encoding_for_model(lastCall.arg).status = "raised") =>
           /\ outcome.status = "raised"
           /\ outcome.ret = encoding_for_model(lastCall.arg).ret
           /\ ~counter
           /\ stats = NoRef
           /\ DOMAIN heap = {}
    /\ counter =>
           /\ encoder # Unset
           /\ encoder = encoding_for_model(model_name).ret
    /\ ~counter => lastCall.op \in {"none", "TokenCounter"}

\* C8 witness: a construction with an unknown model name has just failed.
C8_Witness ==
    /\ lastCall.op = "TokenCounter"
    /\ model_name = "gpt-unknown"
    /\ outcome.status = "raised"
    /\ ~counter

\* The characters of a text in the range U+4E00..U+9FFF, and the others.
InRange(text) ==
    {i \in 1..Len(text.chars) : CJK_LO <= text.chars[i] /\ text.chars[i] <= CJK_HI}
OutOfRange(text) == (1..Len(text.chars)) \ InRange(text)

\* C9: estimate_tokens returns on every text; every character is in exactly
\* one of its two classes; the result r is the floor of
\* (6 * chinese + non_chinese) / 4, and 0 for an empty or absent text.
C9_EstimateIsFloorOfWeightedSum ==
    est_ret.status # "pending" =>
        LET c == Cardinality(InRange(est_text))
            n == Cardinality(OutOfRange(est_text))
            r == est_ret.ret
        IN /\ est_ret.status = "ok"
           /\ \A i \in 1..Len(est_text.chars) :
                 /\ MatchChinese(est_text.chars[i]) # MatchNonChinese(est_text.chars[i])
                 /\ MatchChinese(est_text.chars[i]) <=> i \in InRange(est_text)
           /\ Len(findall_chinese(est_text.chars))
                + Len(findall_non_chinese(est_text.chars)) = Len(est_text.chars)
           /\ 4 * r <= 6 * c + n
           /\ 6 * c + n < 4 * (r + 1)
           /\ Falsy(est_text) => r = 0
           /\ est_text = Str(<<CJK_LO, CJK_HI>>) => r = 3
           /\ est_text = Str(<<97, 32>>) => r = 0
           /\ est_text = Str(<<CJK_HI, 97>>) => r = 1

\* C9 witness: the estimate of U+9FFF followed by a newline is 1.
C9_Witness ==
    /\ est_text = Str(<<CJK_HI, 10>>)
    /\ est_ret.status = "ok"
    /\ est_ret.ret = 1

\* C10: an update that raises leaves all five counters, the binding and the
\* instance as they were.
C10_FailedUpdateChangesNothing ==
    [][(lastCall'.op \in UpdateOps /\ outcome'.status = "raised") =>
          /\ heap' = heap
          /\ counter'
          /\ stats' = stats
          /\ encoder' = encoder
          /\ model_name' = model_name]_vars

\* C10 witness: a list update failed on its second chunk while the retrieved
\* counter held a count from an earlier call.
C10_Witness ==
    /\ counter
    /\ lastCall.op = "update_retrieved_data_tokens"
    /\ outcome.status = "raised"
    /\ Len(lastCall.arg) = 2
    /\ count_tokens(lastCall.arg[1]).status = "ok"
    /\ count_tokens(lastCall.arg[1]).ret > 0
    /\ heap[stats]["retrieved_data_tokens"] > count_tokens(lastCall.arg[1]).ret

====
